---- MODULE Spec2Model ----
(***************************************************************************)
(* wxlive.Variable (src/wxlive.py): a polled observable value.  One caller *)
(* thread runs the public methods; start() spawns a polling thread that    *)
(* runs __run.  The caller's methods are atomic steps (stop() blocks in    *)
(* join and is two steps); the polling thread takes one step per test of   *)
(* the loop condition, per update() and per sleep.                         *)
(* VariableList.append (same file) and the FullGetter and TimedGetter of   *)
(* src/updater.py are modelled as further objects with their own           *)
(* specifications; a getter's polling thread splits _get into its reads    *)
(* and its writes, so that two threads can race on the history buffer.     *)
(* SpecRace runs update() in the polling thread statement by statement     *)
(* (RunFget, RunTime, RunValue, RunNotify), so that the caller's reads and *)
(* its add_listener and remove_listener fall between them.                 *)
(***************************************************************************)
EXTENDS Integers, Sequences, FiniteSets, TLC

\* ------------------------------------------------------------- bounds
NumListeners == 2
MaxListeners == 2
MaxThreads == 2
MaxTime == 1
MaxItems == 2
MaxHistory == 2
MaxSamples == 3

Listeners == 1..NumListeners
ThreadIds == 1..MaxThreads

\* ------------------------------------------------ Python values <<type, payload>>
None == <<"NoneType", 0>>
PyInt(n) == <<"int", n>>
PyFloat(n) == <<"float", n>>
PyStr(s) == <<"str", s>>

\* bool(v), as used by `if self._reply and ...`, `if interval:`, `if self._interval:`
Truthy(v) ==
  CASE v[1] = "NoneType" -> FALSE
    [] v[1] = "int" -> v[2] # 0
    [] v[1] = "float" -> v[2] # 0
    [] v[1] = "str" -> v[2] # ""

\* The decimal texts int() parses; every other text raises ValueError.
IntOfText(s) ==
  CASE s = "0" -> 0
    [] s = "1" -> 1
    [] s = "2" -> 2
    [] OTHER -> -1

\* variable_type = int: whether self.type(v) returns (TRUE) or raises.
CanCoerce(v) ==
  CASE v[1] = "NoneType" -> FALSE
    [] v[1] = "int" -> TRUE
    [] v[1] = "float" -> TRUE
    [] v[1] = "str" -> IntOfText(v[2]) >= 0

\* self.type(v) where it returns.
Coerce(v) ==
  CASE v[1] = "int" -> v
    [] v[1] = "float" -> PyInt(v[2])
    [] v[1] = "str" -> PyInt(IntOfText(v[2]))
    [] OTHER -> None

\* float(v) for the numbers set_interval accepts.
ToFloat(v) == PyFloat(v[2])

\* The outcome of a call of fget or fset that raises instead of returning.
Raises == <<"raise", 0>>

\* What the user's functions and the callers supply.
SetInputs == {PyStr("1"), PyStr("x")}
FgetReturns == {PyFloat(0), PyStr("x")}
Replies == {None, PyInt(0), PyStr("2")}
IntervalInputs == {None, PyInt(1), PyInt(-1), PyStr("1")}

NoThread == 0
NoListener == 0

VARIABLES
  constructed,          \* __init__ has run to its end
  fget, fset,           \* whether a get / set function is configured
  reply_is_new_value,   \* self.__reply_is_new_value
  listeners,            \* self._listeners, a list
  value, time, reply,   \* self._value, self._time, self._reply
  time_offset,          \* self._time_offset
  interval,             \* self._interval
  continue,             \* self.__continue
  thread,               \* self.__thread: NoThread or the id of a Thread
  threads,              \* every Thread object: its position in __run
  cpc,                  \* the caller: "idle", or "join" inside stop()
  clock,                \* time.time()
  dead,                 \* listeners whose wx object was destroyed: PostEvent raises
  last,                 \* the step just taken: the call, its arguments and what it did
  removed,              \* listeners remove_listener took out and add_listener has not added since
  vlist,                \* a VariableList: its items
  g_kind,               \* the getter's class: "none" before it is constructed
  g_history,            \* FullGetter.history
  g_data,               \* FullGetter._data: the rows, oldest first
  g_cur,                \* FullGetter._cur
  g_value,              \* Getter._value
  g_t0,                 \* TimedGetter._t0
  g_continue,           \* Getter._continue
  g_thread,             \* Getter._thread: NoThread or the id of a Thread
  g_threads,            \* every Thread of the getter: its position in _run and its locals
  g_cpc,                \* the getter's caller: "idle", or "join" inside stop()
  g_samples,            \* how many rows the channel functions have produced
  g_since               \* how many of them before the last reset()

vars == <<constructed, fget, fset, reply_is_new_value, listeners, value, time,
          reply, time_offset, interval, continue, thread, threads, cpc, clock,
          dead, last, removed, vlist, g_kind, g_history, g_data, g_cur, g_value,
          g_t0, g_continue, g_thread, g_threads, g_cpc, g_samples, g_since>>

\* The getter object (src/updater.py) and the VariableList.
getter == <<g_kind, g_history, g_data, g_cur, g_value, g_t0, g_continue, g_thread,
            g_threads, g_cpc, g_samples, g_since>>
other_objects == <<vlist, getter>>

\* A getter Thread before start().
NewGetterThread == [pc |-> "new", row |-> 0, buf |-> <<>>, cur |-> 0]

config == <<fget, fset, reply_is_new_value>>

NoDelivery == [l \in Listeners |-> 0]

\* The record of a step that calls nothing and delivers nothing.
Quiet(op) ==
  [op |-> op, arg |-> None, lis |-> NoListener, force |-> FALSE,
   wasActive |-> (thread # NoThread), raised |-> FALSE,
   got |-> NoDelivery, fanouts |-> 0, fgetCalls |-> 0, fsetCalls |-> 0,
   ret |-> None, evt |-> <<None, None, None>>]

NewThread == [pc |-> "new"]

\* ------------------------------------------------------------- lists
RECURSIVE Count(_, _)
Count(lst, w) ==
  IF lst = <<>> THEN 0
  ELSE (IF Head(lst) = w THEN 1 ELSE 0) + Count(Tail(lst), w)

InList(lst, w) == \E i \in 1..Len(lst) : lst[i] = w

\* list.remove(w): drops the first element equal to w (w is in the list).
RECURSIVE ListRemove(_, _)
ListRemove(lst, w) ==
  IF lst = <<>> THEN <<>>
  ELSE IF Head(lst) = w THEN Tail(lst)
  ELSE <<Head(lst)>> \o ListRemove(Tail(lst), w)

\* wx.PostEvent(w, evt) returns (TRUE) or raises because w was destroyed.
PostEvent(w) == w \notin dead

\* (mutant) a timestamp that ignores time_offset.
Timestamp_without_offset == PyFloat(clock)

\* time() - self.time_offset
Timestamp == PyFloat(clock - time_offset)

\* ------------------------------------------------------------- Init
Init ==
  /\ constructed = FALSE
  /\ fget \in BOOLEAN
  /\ fset \in BOOLEAN
  /\ reply_is_new_value \in BOOLEAN
  /\ listeners = <<>>
  /\ value = None
  /\ time = None
  /\ reply = None
  /\ time_offset = 0
  /\ interval = None
  /\ continue = FALSE
  /\ thread = NoThread
  /\ threads = [t \in ThreadIds |-> NewThread]
  /\ cpc = "idle"
  /\ clock = 0
  /\ dead = {}
  /\ last = Quiet("none")
  /\ removed = {}
  /\ vlist = <<>>
  /\ g_kind = "none"
  /\ g_history = 0
  /\ g_data = <<>>
  /\ g_cur = 0
  /\ g_value = None
  /\ g_t0 = None
  /\ g_continue = FALSE
  /\ g_thread = NoThread
  /\ g_threads = [t \in ThreadIds |-> NewGetterThread]
  /\ g_cpc = "idle"
  /\ g_samples = 0
  /\ g_since = 0


\* ------------------------------------------------------------- Variable
is_active == thread # NoThread

\* One iteration of `for w in self._listeners` with the list iterator at
\* position i: skip, post, or remove w from the list on a failed post.
deliver_at(lst, i, skip_listener) ==
  LET w == lst[i + 1] IN
  IF w = skip_listener THEN [listeners |-> lst, to |-> NoListener]
  ELSE IF PostEvent(w) THEN [listeners |-> lst, to |-> w]
  ELSE [listeners |-> ListRemove(lst, w), to |-> NoListener]

\* The loop of notify_listeners from iterator position i on; the iterator
\* reads the list as each removal leaves it.
RECURSIVE notify_from(_, _, _, _)
notify_from(lst, i, skip_listener, got) ==
  IF i >= Len(lst) THEN [listeners |-> lst, got |-> got]
  ELSE LET d == deliver_at(lst, i, skip_listener) IN
       notify_from(d.listeners, i + 1, skip_listener,
                   IF d.to = NoListener THEN got
                   ELSE [got EXCEPT ![d.to] = @ + 1])

notify_listeners(lst, skip_listener) == notify_from(lst, 0, skip_listener, NoDelivery)

\* The listeners whose wx.PostEvent raises in the loop of notify_listeners
\* from iterator position i on.
RECURSIVE failed_from(_, _, _)
failed_from(lst, i, skip_listener) ==
  IF i >= Len(lst) THEN {}
  ELSE (IF lst[i + 1] # skip_listener /\ ~PostEvent(lst[i + 1]) THEN {lst[i + 1]} ELSE {})
       \cup failed_from(deliver_at(lst, i, skip_listener).listeners, i + 1, skip_listener)

\* update() with fget() returning r or raising: coerce first, then time,
\* value, fan-out.
update_call(r) ==
  IF fget /\ (r = Raises \/ ~CanCoerce(r))
  THEN [raised |-> TRUE, time |-> time, value |-> value, listeners |-> listeners,
        got |-> NoDelivery, fanouts |-> 0, fgetCalls |-> 1]
  ELSE notify_listeners(listeners, NoListener) @@
       [raised |-> FALSE,
        time |-> IF fget THEN Timestamp ELSE time,
        value |-> IF fget THEN Coerce(r) ELSE value,
        fanouts |-> 1, fgetCalls |-> IF fget THEN 1 ELSE 0]

\* (mutant) the initiator is left out whatever the setter replied.
skip_of_always(new_reply, setter_object) == setter_object

\* The listener set_value leaves out of the fan-out.
skip_of(new_reply, setter_object) ==
  IF Truthy(new_reply) /\ reply_is_new_value THEN NoListener ELSE setter_object

\* The value set_value stores: the coerced argument or the setter's reply.
stored_of(coerced, new_reply) ==
  IF Truthy(new_reply) /\ reply_is_new_value THEN new_reply ELSE coerced

\* (mutant) the timestamp is taken before the argument is coerced.
coercion_failed_after_time ==
  [raised |-> TRUE, time |-> Timestamp, reply |-> reply, value |-> value,
   listeners |-> listeners, got |-> NoDelivery, fanouts |-> 0, fsetCalls |-> 0]

\* set_value when `value = self.type(value)` raises: nothing was assigned yet.
coercion_failed ==
  [raised |-> TRUE, time |-> time, reply |-> reply, value |-> value,
   listeners |-> listeners, got |-> NoDelivery, fanouts |-> 0, fsetCalls |-> 0]

\* set_value(v, setter_object) with fset(...) returning r or raising: the
\* time is assigned before fset is called, the reply before it is coerced.
set_value_call(v, setter_object, r) ==
  IF ~CanCoerce(v)
  THEN coercion_failed
  ELSE IF fset /\ r = Raises
  THEN [raised |-> TRUE, time |-> Timestamp, reply |-> reply, value |-> value,
        listeners |-> listeners, got |-> NoDelivery, fanouts |-> 0, fsetCalls |-> 1]
  ELSE LET new_reply == IF fset THEN r ELSE None
           stored == stored_of(Coerce(v), new_reply)
       IN IF ~CanCoerce(stored)
          THEN [raised |-> TRUE, time |-> Timestamp, reply |-> new_reply,
                value |-> value, listeners |-> listeners, got |-> NoDelivery,
                fanouts |-> 0, fsetCalls |-> IF fset THEN 1 ELSE 0]
          ELSE notify_listeners(listeners, skip_of(new_reply, setter_object)) @@
               [raised |-> FALSE, time |-> Timestamp, reply |-> new_reply,
                value |-> Coerce(stored), fanouts |-> 1,
                fsetCalls |-> IF fset THEN 1 ELSE 0]

\* No call is waiting to return.
NoCall == last.op = "none"

CallerReady == constructed /\ cpc = "idle" /\ NoCall

SetValue(v, setter_object, r) ==
  /\ CallerReady
  /\ \E s \in {set_value_call(v, setter_object, r)} :
     /\ time' = s.time
     /\ reply' = s.reply
     /\ value' = s.value
     /\ listeners' = s.listeners
     /\ last' = [Quiet("set_value") EXCEPT !.arg = v, !.lis = setter_object,
                  !.raised = s.raised, !.got = s.got, !.fanouts = s.fanouts,
                  !.fsetCalls = s.fsetCalls,
                  !.evt = IF s.raised THEN <<None, None, None>>
                          ELSE <<s.time, s.value, s.reply>>]
  /\ UNCHANGED <<removed, other_objects, constructed, config, time_offset, interval, continue, thread,
                 threads, cpc, clock, dead>>

Update(r) ==
  /\ CallerReady
  /\ \E u \in {update_call(r)} :
     /\ time' = u.time
     /\ value' = u.value
     /\ listeners' = u.listeners
     /\ last' = [Quiet("update") EXCEPT !.raised = u.raised, !.got = u.got,
                  !.fanouts = u.fanouts, !.fgetCalls = u.fgetCalls,
                  !.evt = IF u.raised THEN <<None, None, None>>
                          ELSE <<u.time, u.value, reply>>]
  /\ UNCHANGED <<removed, other_objects, constructed, config, reply, time_offset, interval, continue,
                 thread, threads, cpc, clock, dead>>

\* Whether get_value(force) refreshes before it returns.
get_refreshes(force) == ~is_active \/ force

GetValue(force, r) ==
  /\ CallerReady
  /\ IF get_refreshes(force)
     THEN \E u \in {update_call(r)} :
          /\ time' = u.time
          /\ value' = u.value
          /\ listeners' = u.listeners
          /\ last' = [Quiet("get_value") EXCEPT !.force = force, !.raised = u.raised,
                       !.got = u.got, !.fanouts = u.fanouts, !.fgetCalls = u.fgetCalls,
                       !.ret = IF u.raised THEN None ELSE u.value,
                       !.evt = IF u.raised THEN <<None, None, None>>
                               ELSE <<u.time, u.value, reply>>]
     ELSE /\ UNCHANGED <<time, value, listeners>>
          /\ last' = [Quiet("get_value") EXCEPT !.force = force, !.ret = value]
  /\ UNCHANGED <<removed, other_objects, constructed, config, reply, time_offset, interval, continue,
                 thread, threads, cpc, clock, dead>>

\* (mutant) the event of an older revision, which carried no reply.
new_event_without_reply == <<time, value, None>>

\* The event add_listener builds from the current fields.
new_event == <<time, value, reply>>

\* add_listener(l); NoListener stands for an object that is no event handler
\* and has no event_handler attribute.
add_listener_call(l) ==
  IF l = NoListener
  THEN [raised |-> FALSE, listeners |-> listeners, got |-> NoDelivery,
        evt |-> <<None, None, None>>]
  ELSE IF PostEvent(l)
  THEN [raised |-> FALSE, listeners |-> Append(listeners, l),
        got |-> [NoDelivery EXCEPT ![l] = 1], evt |-> new_event]
  ELSE [raised |-> TRUE, listeners |-> ListRemove(Append(listeners, l), l),
        got |-> NoDelivery, evt |-> <<None, None, None>>]

AddListener(l) ==
  /\ CallerReady
  /\ l # NoListener => Len(listeners) < MaxListeners
  /\ \E a \in {add_listener_call(l)} :
     /\ listeners' = a.listeners
     /\ last' = [Quiet("add_listener") EXCEPT !.lis = l, !.raised = a.raised,
                  !.got = a.got, !.evt = a.evt]
     /\ removed' = IF l # NoListener /\ ~a.raised THEN removed \ {l} ELSE removed
  /\ UNCHANGED <<other_objects, constructed, config, value, time, reply, time_offset, interval,
                 continue, thread, threads, cpc, clock, dead>>

\* remove_listener(l): list.remove raises ValueError when l is not registered.
RemoveListener(l) ==
  /\ CallerReady
  /\ listeners' = IF l # NoListener /\ InList(listeners, l)
                  THEN ListRemove(listeners, l) ELSE listeners
  /\ last' = [Quiet("remove_listener") EXCEPT !.lis = l,
               !.raised = (l # NoListener /\ ~InList(listeners, l))]
  /\ removed' = IF l # NoListener /\ InList(listeners, l)
                THEN removed \cup {l} ELSE removed
  /\ UNCHANGED <<other_objects, constructed, config, value, time, reply, time_offset, interval,
                 continue, thread, threads, cpc, clock, dead>>

\* set_interval accepts an int or a float and nothing else.
IsNumber(v) == v[1] \in {"int", "float"}

SetInterval(v) ==
  /\ CallerReady
  /\ interval' = IF IsNumber(v) THEN ToFloat(v) ELSE interval
  /\ last' = [Quiet("set_interval") EXCEPT !.arg = v, !.raised = ~IsNumber(v)]
  /\ UNCHANGED <<removed, other_objects, constructed, config, listeners, value, time, reply, time_offset,
                 continue, thread, threads, cpc, clock, dead>>

\* (mutant) start() without the is_active() test.
start_spawns_always == TRUE

\* start() does something only when this holds.
start_spawns == ~is_active

\* A Thread object start() can create: one that never ran or has ended, and
\* that self.__thread does not name.
Spawnable(t) == threads[t].pc \in {"new", "dead"} /\ t # thread

Start(i) ==
  /\ CallerReady
  /\ IF ~start_spawns
     THEN /\ UNCHANGED <<interval, continue, thread, threads>>
          /\ last' = [Quiet("start") EXCEPT !.arg = i]
     ELSE IF i # None /\ ~IsNumber(i)
     THEN /\ UNCHANGED <<interval, continue, thread, threads>>
          /\ last' = [Quiet("start") EXCEPT !.arg = i, !.raised = TRUE]
     ELSE /\ \E t \in ThreadIds : Spawnable(t)
          /\ LET t == CHOOSE t \in ThreadIds : Spawnable(t) IN
             /\ thread' = t
             /\ threads' = [threads EXCEPT ![t] = [NewThread EXCEPT !.pc = "while"]]
          /\ interval' = IF i # None THEN ToFloat(i) ELSE interval
          /\ continue' = TRUE
          /\ last' = [Quiet("start") EXCEPT !.arg = i]
  /\ UNCHANGED <<removed, other_objects, constructed, config, listeners, value, time, reply, time_offset,
                 cpc, clock, dead>>

\* (mutant) stop() that does not wait for the thread.
joined_at_once(t) == TRUE

\* Thread.join() returns once the thread has ended.
joined(t) == threads[t].pc = "dead"

\* stop(): with no thread it returns at once; otherwise it clears the flag
\* and waits in join.
Stop ==
  /\ CallerReady
  /\ IF thread # NoThread
     THEN /\ continue' = FALSE
          /\ cpc' = "join"
          /\ last' = Quiet("stop_call")
     ELSE /\ UNCHANGED <<continue, cpc>>
          /\ last' = Quiet("stop")
  /\ UNCHANGED <<removed, other_objects, constructed, config, listeners, value, time, reply, time_offset,
                 interval, thread, threads, clock, dead>>

StopJoin ==
  /\ constructed
  /\ cpc = "join"
  /\ NoCall
  /\ joined(thread)
  /\ thread' = NoThread
  /\ cpc' = "idle"
  /\ last' = Quiet("stop")
  /\ UNCHANGED <<removed, other_objects, constructed, config, listeners, value, time, reply, time_offset,
                 interval, continue, threads, clock, dead>>

\* The initial listeners __init__ is given: None, or a list of one listener.
InitialListeners == {<<>>} \cup {<<l>> : l \in Listeners}

\* (mutant) a constructor that registers its listeners and posts nothing.
added_silently(ls) == [listeners |-> ls, got |-> NoDelivery]

\* for i in listeners: self.add_listener(i), from an empty registry: every
\* entry is appended and is posted one event.
RECURSIVE added_all(_)
added_all(ls) ==
  IF ls = <<>>
  THEN [listeners |-> <<>>, got |-> NoDelivery]
  ELSE LET a == added_all(SubSeq(ls, 1, Len(ls) - 1))
           l == ls[Len(ls)]
       IN [listeners |-> Append(a.listeners, l), got |-> [a.got EXCEPT ![l] = @ + 1]]

\* __init__(interval = i, value = v, listeners = ls): the interval, the
\* initial get or set, then the listeners.
ConstructWith(i, v, rg, rs, ls) ==
  /\ ~constructed
  /\ NoCall
  /\ \A k \in 1..Len(ls) : PostEvent(ls[k])
  /\ \E c \in {IF v = None
                THEN update_call(rg) @@ [reply |-> reply, fsetCalls |-> 0]
                ELSE set_value_call(v, NoListener, rs) @@ [fgetCalls |-> 0]},
        a \in {added_all(ls)} :
     /\ ~c.raised
     /\ time' = c.time
     /\ value' = c.value
     /\ reply' = c.reply
     /\ listeners' = a.listeners
     /\ last' = [Quiet("__init__") EXCEPT !.arg = v, !.got = a.got,
                  !.fanouts = c.fanouts, !.fgetCalls = c.fgetCalls,
                  !.fsetCalls = c.fsetCalls, !.evt = <<c.time, c.value, c.reply>>]
  /\ interval' = IF Truthy(i) THEN ToFloat(i) ELSE None
  /\ constructed' = TRUE
  /\ UNCHANGED <<removed, other_objects, config, time_offset, continue, thread, threads, cpc,
                 clock, dead>>

\* __init__ with no interval.
Construct(v, rg, rs, ls) == ConstructWith(None, v, rg, rs, ls)

\* The call recorded in `last` returns to the caller.
Return ==
  /\ ~NoCall
  /\ last' = Quiet("none")
  /\ UNCHANGED <<removed, other_objects, constructed, config, listeners, value, time, reply, time_offset,
                 interval, continue, thread, threads, cpc, clock, dead>>

\* ------------------------------------------------------------- environment
\* A listener's wx object is destroyed; posting to it raises from then on.
Destroy(l) ==
  /\ constructed
  /\ NoCall
  /\ l \notin dead
  /\ dead' = dead \cup {l}
  /\ UNCHANGED last
  /\ UNCHANGED <<removed, other_objects, constructed, config, listeners, value, time, reply, time_offset,
                 interval, continue, thread, threads, cpc, clock>>

Tick ==
  /\ constructed
  /\ NoCall
  /\ clock < MaxTime
  /\ clock' = clock + 1
  /\ UNCHANGED last
  /\ UNCHANGED <<removed, other_objects, constructed, config, listeners, value, time, reply, time_offset,
                 interval, continue, thread, threads, cpc, dead>>

\* ------------------------------------------------------------- __run
Ended == [pc |-> "dead"]

\* while self.__continue:
RunWhile(t) ==
  /\ NoCall
  /\ threads[t].pc = "while"
  /\ threads' = [threads EXCEPT ![t] = IF continue THEN [@ EXCEPT !.pc = "update"] ELSE Ended]
  /\ UNCHANGED last
  /\ UNCHANGED <<removed, other_objects, constructed, config, listeners, value, time, reply, time_offset,
                 interval, continue, thread, cpc, clock, dead>>

\* time.sleep(secs) raises on a negative length.
sleep_raises(secs) == secs[2] < 0

\* self.update() and the test of self._interval as one step: an exception
\* (of update or of sleep) ends the thread, a true interval sends it to sleep.
RunUpdate(t, r) ==
  /\ NoCall
  /\ threads[t].pc = "update"
  /\ \E u \in {update_call(r)} :
     /\ time' = u.time
     /\ value' = u.value
     /\ listeners' = u.listeners
     /\ threads' = [threads EXCEPT ![t] =
                      IF u.raised THEN Ended
                      ELSE IF ~Truthy(interval) THEN [@ EXCEPT !.pc = "while"]
                      ELSE IF sleep_raises(interval) THEN Ended
                      ELSE [@ EXCEPT !.pc = "sleeping"]]
     /\ UNCHANGED last
  /\ UNCHANGED <<removed, other_objects, constructed, config, reply, time_offset, interval, continue,
                 thread, cpc, clock, dead>>

\* sleep(self._interval) returns.
RunWake(t) ==
  /\ NoCall
  /\ threads[t].pc = "sleeping"
  /\ threads' = [threads EXCEPT ![t].pc = "while"]
  /\ UNCHANGED last
  /\ UNCHANGED <<removed, other_objects, constructed, config, listeners, value, time, reply, time_offset,
                 interval, continue, thread, cpc, clock, dead>>

\* ------------------------------------------------------------- specification
\* What fget() and fset(v) can return in this configuration.
FgetResults == IF fget THEN FgetReturns ELSE {None}
FsetResults == IF fset THEN Replies ELSE {None}
\* The same for the calls that reach the function: set_value calls fset once
\* its argument is coerced, get_value calls fget when it refreshes.
FsetResultsFor(v) == IF CanCoerce(v) THEN FsetResults ELSE {None}
FgetResultsFor(force) == IF get_refreshes(force) THEN FgetResults ELSE {None}

Next ==
  \/ \E v \in SetInputs \cup {None}, rg \in FgetResults, rs \in FsetResults,
        ls \in InitialListeners : Construct(v, rg, rs, ls)
  \/ \E v \in SetInputs, l \in Listeners \cup {NoListener} :
        \E r \in FsetResultsFor(v) : SetValue(v, l, r)
  \/ \E r \in FgetResults : Update(r)
  \/ \E force \in BOOLEAN : \E r \in FgetResultsFor(force) : GetValue(force, r)
  \/ \E l \in Listeners \cup {NoListener} : AddListener(l)
  \/ \E l \in Listeners \cup {NoListener} : RemoveListener(l)
  \/ \E v \in IntervalInputs \ {None} : SetInterval(v)
  \/ \E i \in IntervalInputs : Start(i)
  \/ Stop
  \/ StopJoin
  \/ Return
  \/ \E l \in Listeners : Destroy(l)
  \/ Tick
  \/ \E t \in ThreadIds : RunWhile(t)
  \/ \E t \in ThreadIds, r \in FgetResults : RunUpdate(t, r)
  \/ \E t \in ThreadIds : RunWake(t)

Spec == Init /\ [][Next]_vars

\* The calls on a Variable that is polling or not: every call but stop().
NextCalls ==
  \/ \E v \in SetInputs \cup {None}, rg \in FgetResults, rs \in FsetResults,
        ls \in InitialListeners : Construct(v, rg, rs, ls)
  \/ \E v \in SetInputs, l \in Listeners \cup {NoListener} :
        \E r \in FsetResultsFor(v) : SetValue(v, l, r)
  \/ \E r \in FgetResults : Update(r)
  \/ \E force \in BOOLEAN : \E r \in FgetResultsFor(force) : GetValue(force, r)
  \/ \E l \in Listeners \cup {NoListener} : AddListener(l)
  \/ Start(None)
  \/ Return
  \/ \E l \in Listeners : Destroy(l)
  \/ Tick
  \/ \E t \in ThreadIds : RunWhile(t)
  \/ \E t \in ThreadIds, r \in FgetResults : RunUpdate(t, r)

SpecCalls == Init /\ [][NextCalls]_vars

\* The life of the polling thread: start, stop, the interval, the loop.
NextLife ==
  \/ \E v \in SetInputs \cup {None}, rg \in FgetResults, rs \in FsetResults,
        ls \in InitialListeners : Construct(v, rg, rs, ls)
  \/ \E v \in IntervalInputs \ {None} : SetInterval(v)
  \/ \E i \in IntervalInputs : Start(i)
  \/ Stop
  \/ StopJoin
  \/ Return
  \/ \E t \in ThreadIds : RunWhile(t)
  \/ \E t \in ThreadIds, r \in FgetResults : RunUpdate(t, r)
  \/ \E t \in ThreadIds : RunWake(t)

SpecLife == Init /\ [][NextLife]_vars

\* ------------------------------------------------------------- VariableList
\* What append is given: the Variable, or an object that is no Variable.
TheVariable == <<"Variable", 0>>
NotAVariable == <<"object", 0>>
Items == {TheVariable, NotAVariable}

\* isinstance(item, Variable)
is_variable(item) == item[1] = "Variable"

\* (mutant) append that leaves a polling item polling.
append_without_stop == FALSE

\* append calls item.stop() before it adds the item.
append_stops == TRUE

\* VariableList.append(item) up to the join inside item.stop(); without a
\* thread to join, the whole call.
ListAppend(item) ==
  /\ CallerReady
  /\ is_variable(item) => Len(vlist) < MaxItems
  /\ IF ~is_variable(item)
     THEN /\ UNCHANGED <<vlist, continue, cpc>>
          /\ last' = [Quiet("append") EXCEPT !.arg = item, !.raised = TRUE]
     ELSE IF append_stops /\ thread # NoThread
     THEN /\ continue' = FALSE
          /\ cpc' = "append_join"
          /\ UNCHANGED vlist
          /\ last' = [Quiet("append_call") EXCEPT !.arg = item]
     ELSE /\ vlist' = Append(vlist, item)
          /\ UNCHANGED <<continue, cpc>>
          /\ last' = [Quiet("append") EXCEPT !.arg = item]
  /\ UNCHANGED <<removed, getter, constructed, config, listeners, value, time, reply,
                 time_offset, interval, thread, threads, clock, dead>>

\* The join inside item.stop() returns, and append adds the item.
ListAppendJoin ==
  /\ constructed
  /\ cpc = "append_join"
  /\ NoCall
  /\ joined(thread)
  /\ thread' = NoThread
  /\ vlist' = Append(vlist, TheVariable)
  /\ cpc' = "idle"
  /\ last' = [Quiet("append") EXCEPT !.arg = TheVariable]
  /\ UNCHANGED <<removed, getter, constructed, config, listeners, value, time, reply,
                 time_offset, interval, continue, threads, clock, dead>>

\* ------------------------------------------------------------- FullGetter, TimedGetter
\* (src/updater.py)  A row of the history is named by its number in the
\* order in which the channel functions produced the rows.  No widget is
\* registered with the getter, so post_event posts nothing.
variable_object ==
  <<constructed, config, listeners, value, time, reply, time_offset, interval,
    continue, thread, threads, cpc, clock, dead, removed, vlist>>

GetterKinds == {"FullGetter", "TimedGetter"}
Histories == 1..MaxHistory
SizeInputs == {None} \cup {PyInt(n) : n \in 0..(MaxHistory + 1)}

g_is_active == g_thread # NoThread

\* The record of a getter's call.
GetterCall(op) == [Quiet(op) EXCEPT !.wasActive = g_is_active]

\* d[k:] of Python, for a list d and an integer k.
slice_from(d, k) ==
  LET n == Len(d)
      start == IF k < 0 THEN (IF n + k < 0 THEN 0 ELSE n + k)
               ELSE (IF k > n THEN n ELSE k)
  IN SubSeq(d, start + 1, n)

\* d[i] of Python: whether it raises IndexError, and the element otherwise.
index_raises(d, i) == i >= Len(d) \/ i < 0 - Len(d)
index(d, i) == IF i < 0 THEN d[Len(d) + i + 1] ELSE d[i + 1]

\* (mutant) a _get that returns the row and stores nothing.
get_and_discard(d, c, h, row) == [data |-> d, cur |-> c]

\* FullGetter._get after the row is sampled: the new _data and _cur, from
\* the _data d and the _cur c it read.
get_store(d, c, h, row) ==
  IF c < h
  THEN [data |-> Append(d, row), cur |-> c + 1]
  ELSE [data |-> Append(slice_from(d, 0 - h + 1), row),
        cur |-> IF c > h THEN h ELSE c]

\* Whether sampling raises: a channel function raises (~ok), or
\* TimedGetter._time computes time.time() - None.
sample_raises(ok) == ~ok \/ (g_kind = "TimedGetter" /\ g_t0 = None)

GetterReady == g_kind # "none" /\ g_cpc = "idle" /\ NoCall

\* FullGetter.__init__ / TimedGetter.__init__
GetterInit(kind, h) ==
  /\ g_kind = "none"
  /\ NoCall
  /\ g_kind' = kind
  /\ g_history' = h
  /\ g_data' = <<>>
  /\ g_cur' = 0
  /\ g_value' = None
  /\ g_t0' = None
  /\ g_continue' = TRUE
  /\ g_thread' = NoThread
  /\ last' = Quiet("getter_init")
  /\ UNCHANGED <<variable_object, g_threads, g_cpc, g_samples, g_since>>

\* A Thread object start() can create.
GetterSpawnable(t) == g_threads[t].pc \in {"new", "dead"} /\ t # g_thread

\* Getter.start, preceded by TimedGetter.start's setting of _t0.
GetterStart ==
  /\ GetterReady
  /\ \E t \in ThreadIds : GetterSpawnable(t)
  /\ LET t == CHOOSE t \in ThreadIds : GetterSpawnable(t) IN
     /\ g_thread' = t
     /\ g_threads' = [g_threads EXCEPT ![t] = [NewGetterThread EXCEPT !.pc = "started"]]
  /\ g_t0' = IF g_kind = "TimedGetter" /\ g_t0 = None THEN PyFloat(clock) ELSE g_t0
  /\ last' = GetterCall("getter_start")
  /\ UNCHANGED <<variable_object, g_kind, g_history, g_data, g_cur, g_value,
                 g_continue, g_cpc, g_samples, g_since>>

\* Thread.join() of the getter's thread returns once it has ended.
getter_joined(t) == g_threads[t].pc = "dead"

\* What reset() does once its stop() has returned: Getter.reset clears
\* _value; FullGetter.reset goes on to empty _data and _cur; TimedGetter.reset
\* calls super(FullGetter, self).reset(), which is Getter.reset, and clears _t0.
reset_clears ==
  /\ g_value' = None
  /\ g_data' = IF g_kind = "FullGetter" THEN <<>> ELSE g_data
  /\ g_cur' = IF g_kind = "FullGetter" THEN 0 ELSE g_cur
  /\ g_t0' = IF g_kind = "TimedGetter" THEN None ELSE g_t0
  /\ g_since' = g_samples

\* Getter.stop: with no thread it returns at once; otherwise it clears the
\* flag and waits in join.
GetterStop ==
  /\ GetterReady
  /\ IF g_is_active
     THEN /\ g_continue' = FALSE
          /\ g_cpc' = "join"
          /\ last' = GetterCall("getter_stop_call")
     ELSE /\ UNCHANGED <<g_continue, g_cpc>>
          /\ last' = GetterCall("getter_stop")
  /\ UNCHANGED <<variable_object, g_kind, g_history, g_data, g_cur, g_value, g_t0,
                 g_thread, g_threads, g_samples, g_since>>

GetterStopJoin ==
  /\ g_cpc = "join"
  /\ NoCall
  /\ getter_joined(g_thread)
  /\ g_thread' = NoThread
  /\ g_cpc' = "idle"
  /\ last' = GetterCall("getter_stop")
  /\ UNCHANGED <<variable_object, g_kind, g_history, g_data, g_cur, g_value, g_t0,
                 g_continue, g_threads, g_samples, g_since>>

\* reset(): its stop() up to the join; without a thread, the whole call.
GetterReset ==
  /\ GetterReady
  /\ IF g_is_active
     THEN /\ g_continue' = FALSE
          /\ g_cpc' = "reset_join"
          /\ last' = GetterCall("getter_reset_call")
          /\ UNCHANGED <<g_data, g_cur, g_value, g_t0, g_since>>
     ELSE /\ reset_clears
          /\ UNCHANGED <<g_continue, g_cpc>>
          /\ last' = GetterCall("getter_reset")
  /\ UNCHANGED <<variable_object, g_kind, g_history, g_thread, g_threads, g_samples>>

GetterResetJoin ==
  /\ g_cpc = "reset_join"
  /\ NoCall
  /\ getter_joined(g_thread)
  /\ g_thread' = NoThread
  /\ g_cpc' = "idle"
  /\ reset_clears
  /\ last' = GetterCall("getter_reset")
  /\ UNCHANGED <<variable_object, g_kind, g_history, g_continue, g_threads, g_samples>>

\* FullGetter.get_value: the row at _cur - 1 when active, one _get otherwise.
GetterGetValue(ok) ==
  /\ GetterReady
  /\ IF g_is_active
     THEN /\ last' = IF index_raises(g_data, g_cur - 1)
                     THEN [GetterCall("getter_get_value") EXCEPT !.raised = TRUE]
                     ELSE [GetterCall("getter_get_value") EXCEPT
                             !.ret = index(g_data, g_cur - 1)]
          /\ UNCHANGED <<g_data, g_cur, g_samples>>
     ELSE IF sample_raises(ok)
     THEN /\ last' = [GetterCall("getter_get_value") EXCEPT !.raised = TRUE, !.fgetCalls = 1]
          /\ UNCHANGED <<g_data, g_cur, g_samples>>
     ELSE /\ g_samples < MaxSamples
          /\ \E s \in {get_store(g_data, g_cur, g_history, g_samples + 1)} :
             /\ g_data' = s.data
             /\ g_cur' = s.cur
          /\ g_samples' = g_samples + 1
          /\ last' = [GetterCall("getter_get_value") EXCEPT !.ret = g_samples + 1,
                       !.fgetCalls = 1]
  /\ UNCHANGED <<variable_object, g_kind, g_history, g_value, g_t0, g_continue,
                 g_thread, g_threads, g_cpc, g_since>>

\* FullGetter.get_values(size)
get_values(size) == IF Truthy(size) THEN slice_from(g_data, 0 - size[2]) ELSE g_data

GetterGetValues(size) ==
  /\ GetterReady
  /\ last' = [GetterCall("getter_get_values") EXCEPT !.arg = size, !.ret = get_values(size)]
  /\ UNCHANGED <<variable_object, getter>>

\* Getter._run.  while self._continue: the first test of a thread that was
\* just started, or the test after an iteration.
GetterRunWhile(t) ==
  /\ NoCall
  /\ g_threads[t].pc \in {"started", "while"}
  /\ g_threads' = [g_threads EXCEPT ![t].pc = IF g_continue THEN "get" ELSE "exit"]
  /\ UNCHANGED <<variable_object, last, g_kind, g_history, g_data, g_cur, g_value, g_t0,
                 g_continue, g_thread, g_cpc, g_samples, g_since>>

\* self._continue = True, the last statement of _run.
GetterRunExit(t) ==
  /\ NoCall
  /\ g_threads[t].pc = "exit"
  /\ g_continue' = TRUE
  /\ g_threads' = [g_threads EXCEPT ![t] = [NewGetterThread EXCEPT !.pc = "dead"]]
  /\ UNCHANGED <<variable_object, last, g_kind, g_history, g_data, g_cur, g_value, g_t0,
                 g_thread, g_cpc, g_samples, g_since>>

\* _get in the polling thread, first half: the channel functions are called
\* and _cur and _data are read.  An exception ends the thread.
GetterRunGet(t, ok) ==
  /\ NoCall
  /\ g_threads[t].pc = "get"
  /\ IF sample_raises(ok)
     THEN /\ g_threads' = [g_threads EXCEPT ![t] = [NewGetterThread EXCEPT !.pc = "dead"]]
          /\ UNCHANGED g_samples
     ELSE /\ g_samples < MaxSamples
          /\ \E s \in {get_store(g_data, g_cur, g_history, g_samples + 1)} :
             g_threads' = [g_threads EXCEPT ![t] =
                             [pc |-> "store", row |-> g_samples + 1,
                              buf |-> s.data, cur |-> s.cur]]
          /\ g_samples' = g_samples + 1
  /\ UNCHANGED <<variable_object, last, g_kind, g_history, g_data, g_cur, g_value, g_t0,
                 g_continue, g_thread, g_cpc, g_since>>

\* _get in the polling thread, second half: _data and _cur are written; then
\* post_event and the sleep, which returns.
GetterRunStore(t) ==
  /\ NoCall
  /\ g_threads[t].pc = "store"
  /\ g_data' = g_threads[t].buf
  /\ g_cur' = g_threads[t].cur
  /\ g_threads' = [g_threads EXCEPT ![t] = [NewGetterThread EXCEPT !.pc = "while"]]
  /\ UNCHANGED <<variable_object, last, g_kind, g_history, g_value, g_t0,
                 g_continue, g_thread, g_cpc, g_samples, g_since>>

\* The registry: listeners added, removed and destroyed between fan-outs.
NextRegistry ==
  \/ \E v \in SetInputs \cup {None}, rg \in FgetResults, rs \in FsetResults,
        ls \in InitialListeners : Construct(v, rg, rs, ls)
  \/ \E l \in Listeners \cup {NoListener}, r \in FsetResults : SetValue(PyStr("1"), l, r)
  \/ \E r \in FgetResults : Update(r)
  \/ \E l \in Listeners \cup {NoListener} : AddListener(l)
  \/ \E l \in Listeners \cup {NoListener} : RemoveListener(l)
  \/ Return
  \/ \E l \in Listeners : Destroy(l)

SpecRegistry == Init /\ [][NextRegistry]_vars

\* The same calls on a Variable whose listeners all stay alive: no post fails.
NextLive ==
  \/ \E v \in SetInputs \cup {None}, rg \in FgetResults, rs \in FsetResults,
        ls \in InitialListeners : Construct(v, rg, rs, ls)
  \/ \E v \in SetInputs, l \in Listeners \cup {NoListener} :
        \E r \in FsetResultsFor(v) : SetValue(v, l, r)
  \/ \E r \in FgetResults : Update(r)
  \/ \E force \in BOOLEAN : \E r \in FgetResultsFor(force) : GetValue(force, r)
  \/ \E l \in Listeners \cup {NoListener} : AddListener(l)
  \/ Start(None)
  \/ Return
  \/ Tick
  \/ \E t \in ThreadIds : RunWhile(t)
  \/ \E t \in ThreadIds, r \in FgetResults : RunUpdate(t, r)

SpecLive == Init /\ [][NextLive]_vars

\* A Variable that is started, stopped and appended to a VariableList.
NextList ==
  \/ NextLife
  \/ \E item \in Items : ListAppend(item)
  \/ ListAppendJoin

SpecList == Init /\ [][NextList]_vars

\* A FullGetter or TimedGetter, its caller and its polling threads.
NextGetter ==
  \/ \E kind \in GetterKinds, h \in Histories : GetterInit(kind, h)
  \/ GetterStart
  \/ GetterStop
  \/ GetterStopJoin
  \/ GetterReset
  \/ GetterResetJoin
  \/ \E ok \in BOOLEAN : GetterGetValue(ok)
  \/ Return
  \/ \E t \in ThreadIds : GetterRunWhile(t)
  \/ \E t \in ThreadIds : GetterRunExit(t)
  \/ \E t \in ThreadIds, ok \in BOOLEAN : GetterRunGet(t, ok)
  \/ \E t \in ThreadIds : GetterRunStore(t)

\* The getter has nothing to do with a Variable: one Variable is enough.
InitGetter == Init /\ ~fget /\ ~fset /\ ~reply_is_new_value

SpecGetter == InitGetter /\ [][NextGetter]_vars

\* The history buffer of a getter that is not polling, and its readers.
NextBuffer ==
  \/ \E kind \in GetterKinds, h \in Histories : GetterInit(kind, h)
  \/ GetterReset
  \/ \E ok \in BOOLEAN : GetterGetValue(ok)
  \/ \E size \in SizeInputs : GetterGetValues(size)
  \/ Return

SpecBuffer == InitGetter /\ [][NextBuffer]_vars

\* A getter whose caller calls start() only when it is not active: one
\* polling thread at a time, and get_value() between the polling runs.
NextSampling ==
  \/ \E kind \in GetterKinds, h \in Histories : GetterInit(kind, h)
  \/ ~g_is_active /\ GetterStart
  \/ GetterStop
  \/ GetterStopJoin
  \/ GetterReset
  \/ GetterResetJoin
  \/ \E ok \in BOOLEAN : GetterGetValue(ok)
  \/ Return
  \/ \E t \in ThreadIds : GetterRunWhile(t)
  \/ \E t \in ThreadIds : GetterRunExit(t)
  \/ \E t \in ThreadIds, ok \in BOOLEAN : GetterRunGet(t, ok)
  \/ \E t \in ThreadIds : GetterRunStore(t)

SpecSampling == InitGetter /\ [][NextSampling]_vars

\* ------------------------------------------------------------- properties
Alive(t) == threads[t].pc \notin {"new", "dead"}
AliveThreads == {t \in ThreadIds : Alive(t)}
Registered(l) == InList(listeners, l)
NoDeadRegistered == \A i \in 1..Len(listeners) : PostEvent(listeners[i])

\* C1: in one fan-out run by update(), every registered listener whose
\* delivery does not raise receives one notification for each of its
\* registrations (exactly one when it is registered once), whichever
\* listeners fail.  (Live listeners are never removed, so their registrations
\* are the same before and after the call.)
C1_FanOutReachesEveryLiveListener ==
  (last.op = "update" /\ ~last.raised) =>
    \A l \in Listeners : PostEvent(l) => last.got[l] = Count(listeners, l)

C3_OnePollingThread ==
  [][/\ Cardinality(AliveThreads') <= 1
     /\ (last'.op = "start" /\ ~last'.raised) => is_active'
     /\ (last'.op = "start" /\ last'.wasActive) => threads' = threads /\ thread' = thread]_vars

C3_Witness ==
  /\ last.op = "start"
  /\ last.wasActive
  /\ is_active
  /\ Cardinality(AliveThreads) = 1

\* C4: when stop() has returned is_active() is false, and whenever
\* is_active() is false no polling thread is alive, so none runs update()
\* between the return of stop() and the next start().
C4_StopJoinsThread ==
  /\ last.op = "stop" => ~is_active
  /\ ~is_active => AliveThreads = {}

C4_Witness ==
  /\ last.op = "stop"
  /\ \E t \in ThreadIds : threads[t].pc = "dead"
  /\ time # None

\* C5: start(interval = x) on an active Variable sets the interval to x.
C5_StartWhileActiveSetsInterval ==
  (last.op = "start" /\ last.wasActive /\ IsNumber(last.arg)) => interval = ToFloat(last.arg)

\* C6: add_listener(L) with L a live event handler appends L to the
\* registry and posts exactly one event, to L, carrying the current time,
\* value and reply; no other listener is posted to; polling or not.
C6_AddListenerNotifiesOnce ==
  [][(last'.op = "add_listener" /\ last'.lis # NoListener /\ PostEvent(last'.lis))
     => /\ ~last'.raised
        /\ listeners' = Append(listeners, last'.lis)
        /\ last'.got = [NoDelivery EXCEPT ![last'.lis] = 1]
        /\ last'.evt = <<time, value, reply>>
        /\ <<time', value', reply'>> = <<time, value, reply>>]_vars

C6_Witness ==
  /\ last.op = "add_listener"
  /\ last.wasActive
  /\ ~last.raised
  /\ Len(listeners) = 2
  /\ last.got[last.lis] = 1
  /\ last.evt[2] # None
  /\ last.evt[3] # None

\* C7: update() on a Variable without fget changes neither value, time nor
\* reply and posts to no listener.
C7_UpdateWithoutFgetIsNoOp ==
  [][(last'.op = "update" /\ ~fget)
     => /\ <<time', value', reply'>> = <<time, value, reply>>
        /\ last'.got = NoDelivery]_vars

\* C8: get_value(force = False) on an active Variable returns the cached
\* value, calls nothing, posts nothing and changes nothing; otherwise
\* get_value runs one update(): fget is called once, every registered live
\* listener is posted to once per registration, and the refreshed value is
\* returned.
C8_GetValue ==
  [][(last'.op = "get_value" /\ ~last'.raised)
     => IF last'.wasActive /\ ~last'.force
        THEN /\ last'.ret = value
             /\ last'.fgetCalls = 0
             /\ last'.got = NoDelivery
             /\ <<time', value', reply', listeners'>> = <<time, value, reply, listeners>>
        ELSE /\ last'.fgetCalls = (IF fget THEN 1 ELSE 0)
             /\ last'.fanouts = 1
             /\ \A l \in Listeners : PostEvent(l) => last'.got[l] = Count(listeners, l)
             /\ last'.ret = value']_vars

\* C8 without the fan-out's reach: the rest of the claim.
C8_GetValueButFanOut ==
  [][(last'.op = "get_value" /\ ~last'.raised)
     => IF last'.wasActive /\ ~last'.force
        THEN /\ last'.ret = value
             /\ last'.fgetCalls = 0
             /\ last'.got = NoDelivery
             /\ <<time', value', reply', listeners'>> = <<time, value, reply, listeners>>
        ELSE /\ last'.fgetCalls = (IF fget THEN 1 ELSE 0)
             /\ last'.fanouts = 1
             /\ last'.ret = value']_vars

\* C9: a set_value whose argument cannot be coerced leaves value, time and
\* reply as they were, does not call fset and posts to no listener.
C9_CoercionFailureChangesNothing ==
  [][(last'.op = "set_value" /\ ~CanCoerce(last'.arg))
     => /\ last'.raised
        /\ <<time', value', reply', listeners'>> = <<time, value, reply, listeners>>
        /\ last'.fsetCalls = 0
        /\ last'.got = NoDelivery]_vars

C9_Witness ==
  /\ last.op = "set_value"
  /\ last.raised
  /\ last.arg = PyStr("x")
  /\ value # None
  /\ time # Timestamp
  /\ fset
  /\ \E l \in Listeners : Registered(l) /\ PostEvent(l)

\* C10: with reply_is_new_value and a setter, after set_value(v) the stored
\* value is type(reply) for every reply other than None.
C10_ReplyBecomesValue ==
  (last.op = "set_value" /\ ~last.raised /\ fset /\ reply_is_new_value /\ reply # None)
    => value = Coerce(reply)

\* C16: a listener that remove_listener took out of the registry, and that
\* was not added again since, receives no notification from any later
\* update() or set_value(), however often it had been added before.
C16_RemovedListenerNotNotified ==
  (last.op \in {"update", "set_value"}) => \A l \in removed : last.got[l] = 0

\* C17: set_interval(x) and start(interval = x) with x < 0 raise, leave the
\* interval as it was and start no polling thread.
C17_NegativeIntervalRejected ==
  [][(last'.op \in {"set_interval", "start"} /\ IsNumber(last'.arg) /\ last'.arg[2] < 0)
     => /\ last'.raised
        /\ interval' = interval
        /\ thread' = thread
        /\ threads' = threads]_vars

\* C19: after a fan-out run by update(), no listener whose delivery raised
\* in that fan-out is left in the registry, however often it was registered.
C19_FailedListenerDropped ==
  [][(last'.op = "update" /\ ~last'.raised)
     => \A l \in failed_from(listeners, 0, NoListener) : ~InList(listeners', l)]_vars

\* C20: in every state in which the caller is not inside stop() (and the
\* interval is no negative number, which sleep rejects), is_active() holds
\* iff exactly one polling thread is alive, also after fget or the coercion
\* raised inside a polling tick.
C20_ActiveIffOneThreadAlive ==
  (cpc = "idle" /\ ~(IsNumber(interval) /\ sleep_raises(interval)))
    => (is_active <=> Cardinality(AliveThreads) = 1)

\* C18: when VariableList.append(item) returns for a Variable item, the item
\* is the last element of the list, is_active() of the item is false and no
\* polling thread of it is alive; append of an object that is no Variable
\* raises and leaves the list as it was.
C18_AppendStopsItem ==
  [][last'.op = "append"
     => IF is_variable(last'.arg)
        THEN /\ ~last'.raised
             /\ vlist' = Append(vlist, last'.arg)
             /\ ~is_active'
             /\ AliveThreads' = {}
        ELSE /\ last'.raised
             /\ vlist' = vlist]_vars

C18_Witness ==
  /\ last.op = "append"
  /\ last.wasActive
  /\ ~is_active
  /\ Len(vlist) = 2
  /\ vlist[2] = TheVariable
  /\ \E t \in ThreadIds : threads[t].pc = "dead"

\* The rows sampled since construction or the last reset() whose _get has
\* run to its end, and the greatest element of a set of row numbers.
StoredRows ==
  {r \in (g_since + 1)..g_samples :
     \A t \in ThreadIds : ~(g_threads[t].pc = "store" /\ g_threads[t].row = r)}
Latest(rows) == CHOOSE r \in rows : \A q \in rows : q <= r
LastRows(d, n) == SubSeq(d, Len(d) - n + 1, Len(d))
Least(a, b) == IF a < b THEN a ELSE b

\* C11: the history buffer of a constructed getter never holds more rows
\* than its capacity `history`.
C11_BufferWithinCapacity ==
  g_kind # "none" => Len(g_data) <= g_history

\* C12: the buffer holds consecutive rows in sampling order, all of them
\* sampled since construction or the last reset(), the last one being the
\* most recent row stored, and it holds no fewer of them than its capacity
\* allows.
C12_BufferIsRecentSuffix ==
  g_kind # "none" =>
    /\ \A i \in 1..(Len(g_data) - 1) : g_data[i + 1] = g_data[i] + 1
    /\ \A i \in 1..Len(g_data) : g_data[i] > g_since
    /\ IF StoredRows = {} THEN g_data = <<>>
       ELSE g_data # <<>> /\ g_data[Len(g_data)] = Latest(StoredRows)
    /\ Len(g_data) >= Least(g_history, Cardinality(StoredRows))

\* C13 as stated: get_value() on an inactive getter leaves the buffer as it
\* was.
C13_InactiveGetValueKeepsBuffer ==
  [][(last'.op = "getter_get_value" /\ ~last'.wasActive /\ ~last'.raised)
     => g_data' = g_data]_vars

\* C13 as amended: get_value() on an inactive getter samples one new row,
\* appends it to what it keeps of the buffer (a suffix of it) and returns
\* it: the returned row is the buffer's last row when the call returns.
C13_InactiveGetValueAppends ==
  [][(last'.op = "getter_get_value" /\ ~last'.wasActive /\ ~last'.raised)
     => /\ last'.fgetCalls = 1
        /\ g_samples' = g_samples + 1
        /\ last'.ret = g_samples'
        /\ \E n \in 0..Len(g_data) : g_data' = Append(LastRows(g_data, n), last'.ret)]_vars

C13_Witness ==
  /\ last.op = "getter_get_value"
  /\ ~last.wasActive
  /\ ~last.raised
  /\ g_kind = "FullGetter"
  /\ g_history = 2
  /\ g_data = <<2, 3>>
  /\ last.ret = 3

\* C14: when reset() has returned the getter is not active, its buffer has
\* no rows, and the _t0 of a TimedGetter is cleared.
C14_ResetClears ==
  last.op = "getter_reset" =>
    /\ ~g_is_active
    /\ g_data = <<>>
    /\ g_kind = "TimedGetter" => g_t0 = None

\* C15: get_values(size) returns the last min(size, n) rows of the n rows in
\* the buffer for every size >= 0, the whole buffer for size None, and
\* leaves the buffer as it was.
C15_GetValuesReturnsLastRows ==
  [][last'.op = "getter_get_values"
     => /\ last'.ret = IF last'.arg = None THEN g_data
                       ELSE LastRows(g_data, Least(last'.arg[2], Len(g_data)))
        /\ g_data' = g_data
        /\ g_cur' = g_cur]_vars

\* The threads of the getter that are running _run.
GetterAlive(t) == g_threads[t].pc \notin {"new", "dead"}
GetterAliveThreads == {t \in ThreadIds : GetterAlive(t)}

\* C21: a getter has at most one polling thread alive, whatever start() and
\* stop() calls its caller made, and none when it is not active (before the
\* first start() and after stop() has returned).
C21_OneGetterThread ==
  /\ Cardinality(GetterAliveThreads) <= 1
  /\ ~g_is_active => GetterAliveThreads = {}

\* C29: get_value() on an active FullGetter does not raise, calls no channel
\* function and returns the row appended last, also when no row has been
\* appended yet.
C29_ActiveGetValueReturnsLastRow ==
  [][(last'.op = "getter_get_value" /\ last'.wasActive)
     => /\ ~last'.raised
        /\ last'.fgetCalls = 0
        /\ g_data # <<>> => last'.ret = g_data[Len(g_data)]]_vars

\* ------------------------------------------------------------- construction
\* The lists of listeners and the intervals __init__ is given.
ListenerLists ==
  {<<>>} \cup {<<l>> : l \in Listeners} \cup {<<l, m>> : l \in Listeners, m \in Listeners}
ConstructIntervals == {None, PyInt(0), PyInt(1)}

\* The constructor alone.
NextInit ==
  \/ \E i \in ConstructIntervals, v \in SetInputs \cup {None}, rg \in FgetResults,
        rs \in FsetResults, ls \in ListenerLists : ConstructWith(i, v, rg, rs, ls)
  \/ Return

SpecInit == Init /\ [][NextInit]_vars

FgetOutcomes == IF fget THEN FgetReturns \cup {Raises} ELSE {None}
FsetOutcomes == IF fset THEN Replies \cup {PyStr("x"), Raises} ELSE {None}
FsetOutcomesFor(v) == IF CanCoerce(v) THEN FsetOutcomes ELSE {None}
FgetOutcomesFor(force) == IF get_refreshes(force) THEN FgetOutcomes ELSE {None}

\* The synchronous calls of one caller, with user functions that may fail.
NextErrors ==
  \/ \E v \in SetInputs \cup {None}, rg \in FgetResults, rs \in FsetResults,
        ls \in InitialListeners : Construct(v, rg, rs, ls)
  \/ \E v \in SetInputs, l \in Listeners \cup {NoListener} :
        \E r \in FsetOutcomesFor(v) : SetValue(v, l, r)
  \/ \E r \in FgetOutcomes : Update(r)
  \/ \E force \in BOOLEAN : \E r \in FgetOutcomesFor(force) : GetValue(force, r)
  \/ Tick
  \/ Return

SpecErrors == Init /\ [][NextErrors]_vars

\* C28: when fget fails in update() or get_value(), or fset fails or
\* replies what cannot be coerced in set_value(), the call raises, no
\* listener is notified, and value, timestamp and reply are what they were
\* before the call.
C28_FailedCallChangesNothing ==
  [][(/\ last'.op \in {"update", "get_value", "set_value"}
      /\ last'.raised
      /\ last'.op = "set_value" => CanCoerce(last'.arg))
     => /\ last'.got = NoDelivery
        /\ time' = time
        /\ value' = value
        /\ reply' = reply]_vars

\* ------------------------------------------------------------- time offset
\* What set_time_offset is given.
OffsetInputs == {PyStr("now"), PyInt(0), PyInt(1), PyStr("x")}

\* set_time_offset(v): 'now' stands for time(); a number is taken as it is;
\* anything else raises TypeError.
SetTimeOffset(v) ==
  /\ CallerReady
  /\ time_offset' = IF v = PyStr("now") THEN clock
                    ELSE IF IsNumber(v) THEN v[2] ELSE time_offset
  /\ last' = [Quiet("set_time_offset") EXCEPT !.arg = v,
               !.raised = (v # PyStr("now") /\ ~IsNumber(v))]
  /\ UNCHANGED <<removed, other_objects, constructed, config, listeners, value, time, reply,
                 interval, continue, thread, threads, cpc, clock, dead>>

\* reset_time_offset(v): None stands for 'now'; then set_time_offset.
ResetTimeOffset(v) ==
  /\ CallerReady
  /\ \E w \in {IF v = None THEN PyStr("now") ELSE v} :
     /\ time_offset' = IF w = PyStr("now") THEN clock
                       ELSE IF IsNumber(w) THEN w[2] ELSE time_offset
     /\ last' = [Quiet("reset_time_offset") EXCEPT !.arg = v,
                  !.raised = (w # PyStr("now") /\ ~IsNumber(w))]
  /\ UNCHANGED <<removed, other_objects, constructed, config, listeners, value, time, reply,
                 interval, continue, thread, threads, cpc, clock, dead>>

\* One caller that sets and updates the value and moves the time offset.
NextTime ==
  \/ \E v \in SetInputs \cup {None}, rg \in FgetResults, rs \in FsetResults,
        ls \in InitialListeners : Construct(v, rg, rs, ls)
  \/ \E v \in SetInputs : \E r \in FsetResultsFor(v) : SetValue(v, NoListener, r)
  \/ \E r \in FgetResults : Update(r)
  \/ \E v \in OffsetInputs : SetTimeOffset(v)
  \/ \E v \in {None, PyInt(1)} : ResetTimeOffset(v)
  \/ Tick
  \/ Return

SpecTime == Init /\ [][NextTime]_vars

\* C26 as stated: the stored timestamp never decreases, whatever set_value,
\* update, set_time_offset and reset_time_offset calls are made.
C26_TimestampNeverDecreases ==
  [][(time # None /\ time' # None) => time'[2] >= time[2]]_vars

\* C26 as amended: the wall clock never goes back; a timestamp is stored
\* only by the constructor, set_value, get_value and update, and it is the
\* wall clock minus the time offset in force at that call; set_time_offset
\* and reset_time_offset leave the stored timestamp as it is.
C26_TimestampIsClockMinusOffset ==
  [][/\ clock' >= clock
     /\ time' # time
        => /\ last'.op \in {"__init__", "set_value", "get_value", "update"}
           /\ time' = PyFloat(clock' - time_offset')
     /\ last'.op \in {"set_time_offset", "reset_time_offset"}
        => /\ time' = time
           /\ clock' = clock]_vars

\* A timestamp taken after the offset was raised is smaller than the one
\* stored before.
C26_Witness ==
  /\ last.op \in {"set_value", "update"}
  /\ ~last.raised
  /\ clock = 1
  /\ time_offset = 1
  /\ time = PyFloat(0)

\* ------------------------------------------------------------- stopping
\* C24: the polling loop tests the continue flag before each update() and
\* before each sleep: a thread whose update() ends after stop() cleared the
\* flag does not go to sleep, and no thread enters update() with the flag
\* cleared at its loop test.
C24_StopSeenBeforeSleep ==
  [][\A t \in ThreadIds :
       /\ (threads[t].pc = "update" /\ ~continue) => threads'[t].pc # "sleeping"
       /\ (threads[t].pc = "while" /\ threads'[t].pc = "update") => continue]_vars

\* The scheduler runs every thread that can take a step, every fget call
\* and every sleep returns, and a call that has finished returns.
FairLife ==
  /\ WF_vars(\E t \in ThreadIds : RunWhile(t))
  /\ WF_vars(\E t \in ThreadIds, r \in FgetResults : RunUpdate(t, r))
  /\ WF_vars(\E t \in ThreadIds : RunWake(t))
  /\ WF_vars(StopJoin)
  /\ WF_vars(Return)

SpecLifeFair == SpecLife /\ FairLife

\* C25: a stop() that waits for the polling thread eventually returns, and
\* it returns only once that thread has ended: while the thread is inside a
\* callback that does not return, stop() does not return.
C25_StopEventuallyReturns ==
  /\ (cpc = "join") ~> (cpc = "idle" /\ last.op = "stop")
  /\ [][(cpc = "join" /\ cpc' = "idle") => threads[thread].pc = "dead"]_vars

C25_Witness ==
  /\ last.op = "stop"
  /\ cpc = "idle"
  /\ ~is_active
  /\ Truthy(interval)
  /\ \E t \in ThreadIds : threads[t].pc = "dead"
  /\ time # None

\* ------------------------------------------------------------- update, statement by statement
\* The polling thread's update() as the statements another thread can come
\* between: the call of fget, the two assignments, and each iteration of
\* the loop of notify_listeners.  A thread carries the coerced value, the
\* position of the list iterator and, for the properties, the timestamp it
\* overwrote, the registry as the fan-out found it and the events it has
\* posted.
fan_out(t) ==
  [pc |-> "notify", val |-> None, old |-> None, idx |-> 0, lst0 |-> listeners,
   got |-> NoDelivery]

\* value = self.type(self.fget()); without fget update() only notifies.
RunFget(t, r) ==
  /\ NoCall
  /\ threads[t].pc = "update"
  /\ threads' = [threads EXCEPT ![t] =
                   IF ~fget THEN fan_out(t)
                   ELSE IF r = Raises \/ ~CanCoerce(r) THEN Ended
                   ELSE [fan_out(t) EXCEPT !.pc = "time", !.val = Coerce(r)]]
  /\ UNCHANGED last
  /\ UNCHANGED <<removed, other_objects, constructed, config, listeners, value, time, reply,
                 time_offset, interval, continue, thread, cpc, clock, dead>>

\* self._time = time() - self.time_offset
RunTime(t) ==
  /\ NoCall
  /\ threads[t].pc = "time"
  /\ time' = Timestamp
  /\ threads' = [threads EXCEPT ![t].pc = "value", ![t].old = time]
  /\ UNCHANGED last
  /\ UNCHANGED <<removed, other_objects, constructed, config, listeners, value, reply,
                 time_offset, interval, continue, thread, cpc, clock, dead>>

\* self._value = value, and the loop of notify_listeners begins.
RunValue(t) ==
  /\ NoCall
  /\ threads[t].pc = "value"
  /\ value' = threads[t].val
  /\ threads' = [threads EXCEPT ![t] = fan_out(t)]
  /\ UNCHANGED last
  /\ UNCHANGED <<removed, other_objects, constructed, config, listeners, time, reply,
                 time_offset, interval, continue, thread, cpc, clock, dead>>

\* One iteration of `for w in self._listeners`, or its end; then the test
\* of self._interval.
RunNotify(t) ==
  /\ NoCall
  /\ threads[t].pc = "notify"
  /\ IF threads[t].idx >= Len(listeners)
     THEN /\ threads' = [threads EXCEPT ![t] =
                           IF ~Truthy(interval) THEN [pc |-> "while"]
                           ELSE IF sleep_raises(interval) THEN Ended
                           ELSE [pc |-> "sleeping"]]
          /\ UNCHANGED listeners
     ELSE \E d \in {deliver_at(listeners, threads[t].idx, NoListener)} :
          /\ listeners' = d.listeners
          /\ threads' = [threads EXCEPT ![t].idx = @ + 1,
                           ![t].got = IF d.to = NoListener THEN @
                                      ELSE [@ EXCEPT ![d.to] = @ + 1]]
  /\ UNCHANGED last
  /\ UNCHANGED <<removed, other_objects, constructed, config, value, time, reply,
                 time_offset, interval, continue, thread, cpc, clock, dead>>

\* get_time_value_pair(force): update() unless polling, then the two fields.
GetTimeValuePair(force, r) ==
  /\ CallerReady
  /\ IF get_refreshes(force)
     THEN \E u \in {update_call(r)} :
          /\ time' = u.time
          /\ value' = u.value
          /\ listeners' = u.listeners
          /\ last' = [Quiet("get_time_value_pair") EXCEPT !.force = force,
                       !.raised = u.raised, !.got = u.got, !.fanouts = u.fanouts,
                       !.fgetCalls = u.fgetCalls,
                       !.ret = IF u.raised THEN None ELSE <<u.time, u.value>>]
     ELSE /\ UNCHANGED <<time, value, listeners>>
          /\ last' = [Quiet("get_time_value_pair") EXCEPT !.force = force,
                       !.ret = <<time, value>>]
  /\ UNCHANGED <<removed, other_objects, constructed, config, reply, time_offset, interval,
                 continue, thread, threads, cpc, clock, dead>>

\* The fan-outs in progress in polling threads.
FanOuts == {t \in ThreadIds : threads[t].pc = "notify"}

\* One caller that reads the pair and adds and removes listeners while a
\* polling thread updates.  During a fan-out the caller adds only listeners
\* the fan-out did not find registered.
NextRace ==
  \/ \E v \in SetInputs \cup {None}, rg \in FgetResults, rs \in FsetResults,
        ls \in InitialListeners : Construct(v, rg, rs, ls)
  \/ \E l \in Listeners :
        /\ \A t \in FanOuts : ~InList(threads[t].lst0, l)
        /\ AddListener(l)
  \/ \E l \in Listeners : RemoveListener(l)
  \/ \E r \in FgetResultsFor(FALSE) : GetTimeValuePair(FALSE, r)
  \/ Start(None)
  \/ Tick
  \/ Return
  \/ \E t \in ThreadIds : RunWhile(t)
  \/ \E t \in ThreadIds, r \in FgetResults : RunFget(t, r)
  \/ \E t \in ThreadIds : RunTime(t)
  \/ \E t \in ThreadIds : RunValue(t)
  \/ \E t \in ThreadIds : RunNotify(t)

SpecRace == Init /\ [][NextRace]_vars

\* C22: the pair get_time_value_pair() returns while the Variable is
\* polling was written by one call: when it is read between the two
\* assignments of an update(), it is the pair the update found (the same
\* timestamp) or the pair the update writes (the same value), never the new
\* timestamp with the old value.
C22_NoTornRead ==
  [][(last'.op = "get_time_value_pair" /\ last'.wasActive)
     => \A t \in ThreadIds :
          threads[t].pc = "value"
          => \/ last'.ret[1] = threads[t].old
             \/ last'.ret[2] = threads[t].val]_vars

\* C23: when a fan-out of the polling thread ends, every listener that was
\* registered once when it began and is registered once now, and to which
\* posting does not fail, has been posted exactly one event by it.
C23_FanOutUnderAddRemove ==
  [][\A t \in FanOuts :
       threads'[t].pc # "notify"
       => \A l \in Listeners :
            (Count(threads[t].lst0, l) = 1 /\ Count(listeners, l) = 1 /\ PostEvent(l))
            => threads[t].got[l] = 1]_vars

\* ------------------------------------------------------------- restart
\* C30: the polling thread a start() created samples the source before the
\* next stop(): as long as no stop() or reset() was called after that
\* start(), the thread does not leave its loop at its first test, whatever
\* happened to the getter before, a polling thread ended by an exception
\* included.
C30_RestartedThreadSamples ==
  [][\A t \in ThreadIds :
       (g_threads[t].pc = "started" /\ t = g_thread /\ g_cpc = "idle")
       => g_threads'[t].pc # "exit"]_vars

====
